---------------------------- MODULE Spec2Model ----------------------------
(***************************************************************************)
(* Voice Relay speech-to-text: the transcription service                   *)
(* (packages/stt/main.py) and its evaluation harness                       *)
(* (packages/stt/test/test_stt.py).                                        *)
(*                                                                         *)
(* Strings the code inspects character by character (file names, the texts *)
(* that are normalized) are sequences of one-character strings.  An        *)
(* optional value is a sequence of length 0 (Python's None) or 1.          *)
(***************************************************************************)
EXTENDS Integers, Sequences, FiniteSets, TLC

VARIABLES
    model,      \* main.py: the process-wide `model` global
    fs,         \* the temporary directory: the files that exist, each with its creator
    req,        \* main.py: one POST /transcribe handler invocation per request id
    hpc,        \* test_stt.py main(): where the run is
    argv,       \* test_stt.py main(): sys.argv[1:] of the run
    manifest,   \* test_stt.py: what load_manifest() reads (media/manifest.json)
    disk,       \* test_stt.py: the fixture files that exist under MEDIA_DIR
    results,    \* test_stt.py main(): the `results` list
    posts,      \* the /transcribe requests the harness sent, by manifest index
    summary,    \* test_stt.py main(): the printed summary line, once printed
    exit_code,  \* test_stt.py main(): the process exit status, once exited
    nin,        \* input of the normalize_text evaluation
    nout,       \* normalize_text applied once and twice to nin
    sa,         \* inputs of the calculate_similarity evaluation
    sb,
    sout        \* calculate_similarity(sa, sb) and calculate_similarity(sb, sa)

vars == <<model, fs, req, hpc, argv, manifest, disk, results, posts, summary,
          exit_code, nin, nout, sa, sb, sout>>

svcVars == <<model, fs, req>>
harnessVars == <<hpc, argv, manifest, disk, results, posts, summary, exit_code>>
normVars == <<nin, nout>>
simVars == <<sa, sb, sout>>

\* what each part leaves alone
notSvc == <<harnessVars, normVars, simVars>>
notHarness == <<svcVars, normVars, simVars>>
notNorm == <<svcVars, harnessVars, simVars>>
notSim == <<svcVars, harnessVars, normVars>>

\* Python's None and a present value
None == <<>>
Some(x) == <<x>>

-----------------------------------------------------------------------------
(* Bounds *)

NumRequests == 2
MaxCases == 2
MaxTextLen == 3
MaxSimLen == 3

-----------------------------------------------------------------------------
(* Character-level helpers *)

RECURSIVE Concat(_)
Concat(ss) == IF ss = <<>> THEN <<>> ELSE Head(ss) \o Concat(Tail(ss))

\* the positions of s holding character c
Positions(s, c) == {i \in 1..Len(s) : s[i] = c}

SetMax(S) == CHOOSE x \in S : \A y \in S : y <= x

\* all sequences over S of length at most n
SeqUpTo(S, n) == UNION {[1..k -> S] : k \in 0..n}


-----------------------------------------------------------------------------
(* Character classes of Python's str methods and of the re module *)

Letters == {"a", "b", "h", "i", "w"}
Uppers == {"A"}
Digits == {"1"}
Spaces == {" ", "\t"}

\* re's \s, and what str.strip() and str.split() treat as whitespace
IsSpace(c) == c \in Spaces

\* re's \w: alphanumerics and the underscore
IsWord(c) == c \in Letters \cup Uppers \cup Digits \cup {"_"}

\* str.lower(), one character
LowerChar(c) == IF c = "A" THEN "a" ELSE c

\* str.lower()
Lower(s) == [i \in 1..Len(s) |-> LowerChar(s[i])]

\* str.strip(): drop leading and trailing whitespace
Strip(s) ==
    LET keep == {i \in 1..Len(s) : ~IsSpace(s[i])}
    IN  IF keep = {} THEN <<>>
        ELSE SubSeq(s, CHOOSE i \in keep : \A j \in keep : i <= j, SetMax(keep))

-----------------------------------------------------------------------------
(* packages/stt/main.py *)

Requests == 1..NumRequests

\* tempfile's candidate names
TmpNames == 1..NumRequests

\* UploadFile.filename values: missing, "", "a", "a.w", ".a"
UploadNames ==
    { None, Some(<<>>), Some(<<"a">>), Some(<<"a", ".", "w">>), Some(<<".", "a">>) }

DefaultSuffix == <<".", "w", "e", "b", "m">>

\* os.path.splitext(p): (root, ext); ext starts at the last dot after the last
\* separator, unless only dots precede it in the file name
splitext(p) ==
    LET seps == Positions(p, "/")
        dots == Positions(p, ".")
        sepIndex == IF seps = {} THEN 0 ELSE SetMax(seps)
        dotIndex == IF dots = {} THEN 0 ELSE SetMax(dots)
    IN  IF /\ dotIndex > sepIndex
           /\ \E i \in (sepIndex + 1)..(dotIndex - 1) : p[i] # "."
        THEN <<SubSeq(p, 1, dotIndex - 1), SubSeq(p, dotIndex, Len(p))>>
        ELSE <<p, <<>>>>

\* suffix = os.path.splitext(file.filename)[1] if file.filename else ".webm"
TempSuffix(filename) ==
    IF filename # None /\ filename[1] # <<>>
    THEN splitext(filename[1])[2]
    ELSE DefaultSuffix

\* the handler without its model check
ModelCheckSkipped == FALSE

\* `model is None`
ModelIsNone == model = "None"

HTTPException(code, msg) ==
    [status |-> code, detail |-> msg, text |-> <<>>, escaped |-> FALSE]

\* an exception that is not an HTTPException leaves the handler: the framework
\* answers 500 "Internal Server Error"
Unhandled ==
    [status |-> 500, detail |-> "Internal Server Error", text |-> <<>>, escaped |-> TRUE]

Ok200(full_text) ==
    [status |-> 200, detail |-> "", text |-> full_text, escaped |-> FALSE]

EngineErrors == {"decode failed", "internal fault"}

\* the segment texts the engine yields on a call: none, " h", " h" then "i "
SegmentLists == { <<>>, << <<" ", "h">> >>, << <<" ", "h">>, <<"i", " ">> >> }

\* What the engine does on one call: the segments it would yield, and where it
\* raises, if it does: 0 in model.transcribe itself, k >= 1 when the k-th
\* segment is pulled from the generator.
EngineOutcomes ==
    {[segments |-> s, raise_at |-> None, msg |-> ""] : s \in SegmentLists}
    \cup UNION { { [segments |-> s, raise_at |-> Some(k), msg |-> m] :
                      k \in 0..(Len(s) + 1), m \in EngineErrors } : s \in SegmentLists }

EngineRaises(o) == o.raise_at # None

\* the segment loop left outside the try statement: what the generator raises
\* leaves the handler
TryTranscribeCallOnly(o) ==
    IF EngineRaises(o)
    THEN (IF o.raise_at[1] = 0 THEN HTTPException(500, o.msg) ELSE Unhandled)
    ELSE Ok200(Strip(Concat(o.segments)))

\* the try body and its except clause: the response the handler is about to give
TryTranscribe(o) ==
    IF EngineRaises(o)
    THEN HTTPException(500, o.msg)
    ELSE Ok200(Strip(Concat(o.segments)))

\* the handler has returned or raised: its locals are gone, what is left is the
\* response the client gets and what the request did
Finished(q, resp) ==
    [q EXCEPT !.pc = "done", !.filename = None, !.suffix = None, !.tmp = None,
              !.tmp_path = None, !.response = Some(resp)]

NewRequest ==
    [pc |-> "start", filename |-> None, saw_model |-> "", suffix |-> None,
     tmp |-> None, tmp_path |-> None, io |-> {}, calls |-> 0, engine_error |-> None,
     response |-> None]

Paths == {f.path : f \in fs}

\* tempfile.NamedTemporaryFile(delete=False, suffix=suffix): a path that no
\* existing file has.  The random names are interchangeable; the least unused
\* one stands for the draw.
NewTmpPath(suffix) ==
    LET free == {n \in TmpNames : [name |-> n, suffix |-> suffix] \notin Paths}
    IN  [name |-> CHOOSE n \in free : \A m \in free : n <= m, suffix |-> suffix]

\* os.unlink(tmp_path)
Unlink(files, path) == {f \in files : f.path # path}

\* Startup event: load_model()
load_model ==
    /\ model = "None"
    /\ model' = "WhisperModel"
    /\ UNCHANGED <<fs, req, notSvc>>

\* POST /transcribe arrives: the model check, then the temporary file is
\* created and the handler awaits the upload
transcribe_begin(r) ==
    /\ req[r].pc = "start"
    /\ IF ModelIsNone
       THEN /\ req' = [req EXCEPT ![r] =
                  Finished([@ EXCEPT !.saw_model = model],
                           HTTPException(503, "Model not loaded"))]
            /\ fs' = fs
       ELSE \E filename \in UploadNames :
              LET path == NewTmpPath(TempSuffix(filename))
              IN  /\ fs' = fs \cup {[path |-> path, owner |-> r]}
                  /\ req' = [req EXCEPT ![r] =
                        [@ EXCEPT !.pc = "reading", !.filename = filename,
                                  !.saw_model = model,
                                  !.suffix = Some(path.suffix),
                                  !.tmp = Some(path),
                                  !.io = @ \cup {"create"}]]
    /\ UNCHANGED <<model, notSvc>>

\* content = await file.read(); tmp.write(content); tmp_path = tmp.name
transcribe_stage(r) ==
    /\ req[r].pc = "reading"
    /\ req' = [req EXCEPT ![r] =
          [@ EXCEPT !.pc = "staged", !.tmp_path = req[r].tmp,
                    !.io = @ \cup {"read", "write"}]]
    /\ UNCHANGED <<model, fs, notSvc>>

\* `await file.read()` raises (or the task is cancelled there): the with block
\* closes the file, which was opened with delete=False, and the exception
\* leaves the handler before the try statement is entered
transcribe_read_fails(r) ==
    /\ req[r].pc = "reading"
    /\ req' = [req EXCEPT ![r] =
          Finished([@ EXCEPT !.io = @ \cup {"read"}], Unhandled)]
    /\ UNCHANGED <<model, fs, notSvc>>

\* tmp.write(content) raises: as above
transcribe_write_fails(r) ==
    /\ req[r].pc = "reading"
    /\ req' = [req EXCEPT ![r] =
          Finished([@ EXCEPT !.io = @ \cup {"read", "write"}], Unhandled)]
    /\ UNCHANGED <<model, fs, notSvc>>

\* the try body: model.transcribe(tmp_path, beam_size=5), the loop over the
\* segments, the join; and the except clause
transcribe_engine(r) ==
    /\ req[r].pc = "staged"
    /\ \E o \in EngineOutcomes :
         req' = [req EXCEPT ![r] =
            [@ EXCEPT !.pc = "cleanup", !.calls = @ + 1,
                      !.engine_error = IF EngineRaises(o) THEN Some(o.msg) ELSE None,
                      !.response = Some(TryTranscribe(o))]]
    /\ UNCHANGED <<model, fs, notSvc>>

\* the finally clause: os.unlink(tmp_path), then the response leaves
transcribe_finally(r) ==
    /\ req[r].pc = "cleanup"
    /\ fs' = Unlink(fs, req[r].tmp_path[1])
    /\ req' = [req EXCEPT ![r] =
          Finished([@ EXCEPT !.io = @ \cup {"unlink"}], req[r].response[1])]
    /\ UNCHANGED <<model, notSvc>>

SvcInit ==
    /\ model = "None"
    /\ fs = {}
    /\ req = [r \in Requests |-> NewRequest]

SvcNext ==
    \/ load_model
    \/ \E r \in Requests :
         \/ transcribe_begin(r)
         \/ transcribe_stage(r)
         \/ transcribe_read_fails(r)
         \/ transcribe_write_fails(r)
         \/ transcribe_engine(r)
         \/ transcribe_finally(r)

-----------------------------------------------------------------------------
(* packages/stt/test/test_stt.py: normalize_text, calculate_similarity *)

\* re.sub(r'[^\w\s]', '', text)
RemovePunctuation(s) == SelectSeq(s, LAMBDA c : IsWord(c) \/ IsSpace(c))

\* re.sub(r'\s+', ' ', text)
RECURSIVE CollapseSpaces(_)
CollapseSpaces(s) ==
    IF s = <<>> THEN <<>>
    ELSE IF IsSpace(Head(s))
         THEN IF Len(s) > 1 /\ IsSpace(s[2])
              THEN CollapseSpaces(Tail(s))
              ELSE <<" ">> \o CollapseSpaces(Tail(s))
         ELSE <<Head(s)>> \o CollapseSpaces(Tail(s))

normalize_text(text) == CollapseSpaces(RemovePunctuation(Strip(Lower(text))))

\* str.split(): the maximal runs of non-whitespace characters, as a set
RECURSIVE SplitFrom(_, _)
SplitFrom(s, word) ==
    IF s = <<>> THEN (IF word = <<>> THEN {} ELSE {word})
    ELSE IF IsSpace(Head(s))
         THEN (IF word = <<>> THEN {} ELSE {word}) \cup SplitFrom(Tail(s), <<>>)
         ELSE SplitFrom(Tail(s), Append(word, Head(s)))

Words(text) == SplitFrom(normalize_text(text), <<>>)

RECURSIVE GCD(_, _)
GCD(a, b) == IF b = 0 THEN a ELSE GCD(b, a % b)

\* the float n / d, d > 0: a fraction in lowest terms
Ratio(n, d) == <<n \div GCD(n, d), d \div GCD(n, d)>>

One == <<1, 1>>
Zero == <<0, 1>>

\* x >= y for two such floats
Geq(x, y) == x[1] * y[2] >= y[1] * x[2]

\* calculate_similarity answering 1.0 for every empty expected token set
calculate_similarity_EmptyIsOne(expected, actual) ==
    LET expected_words == Words(expected)
        actual_words == Words(actual)
        intersection == expected_words \cap actual_words
        union == expected_words \cup actual_words
    IN  IF expected_words = {}
        THEN One
        ELSE IF union # {}
             THEN Ratio(Cardinality(intersection), Cardinality(union))
             ELSE Zero

calculate_similarity(expected, actual) ==
    LET expected_words == Words(expected)
        actual_words == Words(actual)
        intersection == expected_words \cap actual_words
        union == expected_words \cup actual_words
    IN  IF expected_words = {}
        THEN (IF actual_words = {} THEN One ELSE Zero)
        ELSE IF union # {}
             THEN Ratio(Cardinality(intersection), Cardinality(union))
             ELSE Zero

-----------------------------------------------------------------------------
(* packages/stt/test/test_stt.py: the harness *)

\* run_test's default threshold, 0.7
Threshold == <<7, 10>>

Fixtures == {"a.wav", "b.wav"}

\* expected transcripts: "a b", "a b h i"
Expecteds == { <<"a", " ", "b">>, <<"a", " ", "b", " ", "h", " ", "i">> }

TestCases == {[file |-> f, expected |-> e] : f \in Fixtures, e \in Expecteds}

\* JSON values of the "text" member of a 200 body
PyStr(chars) == [t |-> "str", v |-> chars]
PyInt == [t |-> "int", v |-> <<>>]
PyNone == [t |-> "NoneType", v |-> <<>>]
IsStr(x) == x.t = "str"

\* transcripts the service answers: "", "A b.", "a b h"
Transcripts == { <<>>, <<"A", " ", "b", ".">>, <<"a", " ", "b", " ", "h">> }

\* What one POST /transcribe of the harness meets.
\*   transport: httpx raises, str(e) is msg (the empty string included)
\*   http:      a status other than 200
\*   ok:        status 200; the body is a JSON object (with a "text" member that
\*              is a string, a number or null, or without one), some other JSON
\*              value, or no JSON at all
PostOutcomes ==
    {[kind |-> "transport", msg |-> m] : m \in {"", "timed out"}}
    \cup {[kind |-> "http", status |-> st, body |-> "detail"] : st \in {"500", "503"}}
    \cup {[kind |-> "ok", json |-> "object", member |-> Some(PyStr(tx))] : tx \in Transcripts}
    \cup {[kind |-> "ok", json |-> "object", member |-> Some(PyInt)]}
    \cup {[kind |-> "ok", json |-> "object", member |-> Some(PyNone)]}
    \cup {[kind |-> "ok", json |-> "object", member |-> None]}
    \cup {[kind |-> "ok", json |-> j] : j \in {"array", "invalid"}}

\* Python's truth value of an optional string, kept as a sequence of pieces
Truthy(error) == error # None /\ \E i \in 1..Len(error[1]) : error[1][i] # ""

\* transcribe_file(audio_path) -> (text, error); sent: whether a request went out
transcribe_file(audio_path, exists, o) ==
    IF ~exists
    THEN [text |-> PyNone, sent |-> FALSE,
          error |-> Some(<<"[Errno 2] No such file or directory: ", audio_path>>)]
    ELSE IF o.kind = "transport"
    THEN [text |-> PyNone, sent |-> TRUE, error |-> Some(<<o.msg>>)]
    ELSE IF o.kind = "http"
    THEN [text |-> PyNone, sent |-> TRUE,
          error |-> Some(<<"HTTP ", o.status, ": ", o.body>>)]
    ELSE IF o.json = "invalid"
    THEN [text |-> PyNone, sent |-> TRUE, error |-> Some(<<"Expecting value">>)]
    ELSE IF o.json = "array"
    THEN [text |-> PyNone, sent |-> TRUE,
          error |-> Some(<<"'list' object has no attribute 'get'">>)]
    \* resp.json().get('text', '')
    ELSE [text |-> IF o.member = None THEN PyStr(<<>>) ELSE o.member[1],
          sent |-> TRUE, error |-> None]

TestResult(test_case, actual, similarity, passed, error) ==
    [file |-> test_case.file, expected |-> test_case.expected, actual |-> actual,
     similarity |-> similarity, passed |-> passed, error |-> error]

\* similarity >= threshold
Passes(similarity, threshold) == Geq(similarity, threshold)

\* run_test without its file_path.exists() check
run_test_NoExistsCheck(test_case, exists, o) ==
    LET got == transcribe_file(test_case.file, exists, o)
    IN  IF Truthy(got.error)
        THEN [raised |-> FALSE, sent |-> got.sent,
              result |-> TestResult(test_case, <<>>, Zero, FALSE, got.error)]
        ELSE IF ~IsStr(got.text)
        THEN [raised |-> TRUE, sent |-> got.sent,
              result |-> TestResult(test_case, <<>>, Zero, FALSE, None)]
        ELSE LET similarity ==
                     calculate_similarity(test_case.expected, got.text.v)
             IN  [raised |-> FALSE, sent |-> got.sent,
                  result |-> TestResult(test_case, got.text.v, similarity,
                                        Passes(similarity, Threshold), None)]

\* run_test(test_case): the TestResult, or raised when an exception leaves it
run_test(test_case, exists, o) ==
    IF ~exists
    THEN [raised |-> FALSE, sent |-> FALSE,
          result |-> TestResult(test_case, <<>>, Zero, FALSE,
                                Some(<<"File not found: ", test_case.file>>))]
    ELSE LET got == transcribe_file(test_case.file, exists, o)
         IN  IF Truthy(got.error)
             THEN [raised |-> FALSE, sent |-> got.sent,
                   result |-> TestResult(test_case, <<>>, Zero, FALSE, got.error)]
             ELSE IF ~IsStr(got.text)
             THEN \* normalize_text(actual): actual.lower() raises AttributeError
                  [raised |-> TRUE, sent |-> got.sent,
                   result |-> TestResult(test_case, <<>>, Zero, FALSE, None)]
             ELSE LET similarity ==
                          calculate_similarity(test_case.expected, got.text.v)
                  IN  [raised |-> FALSE, sent |-> got.sent,
                       result |-> TestResult(test_case, got.text.v, similarity,
                                             Passes(similarity, Threshold), None)]

\* passed = sum(1 for r in results if r.passed)
CountPassed(rs) == Cardinality({i \in 1..Len(rs) : rs[i].passed})

\* failed counted as the results that carry an error
CountFailed_ErrorsOnly(rs) == Cardinality({i \in 1..Len(rs) : rs[i].error # None})

\* failed = len(results) - passed
CountFailed(rs) == Len(rs) - CountPassed(rs)

Args == {None, Some("--health"), Some("a.wav")}

\* main(): test_health(), and the --health flag
main_health ==
    /\ hpc = "start"
    /\ \E healthy \in BOOLEAN :
         IF ~healthy
         THEN hpc' = "exited" /\ exit_code' = Some(1)
         ELSE IF argv = Some("--health")
              THEN hpc' = "exited" /\ exit_code' = Some(0)
              ELSE hpc' = "mode" /\ exit_code' = exit_code
    /\ UNCHANGED <<argv, manifest, disk, results, posts, summary, notHarness>>

\* main(): a file argument: transcribe it, print, return
main_single_file ==
    /\ hpc = "mode"
    /\ argv # None
    /\ \E o \in PostOutcomes :
         LET got == transcribe_file(argv[1], argv[1] \in disk, o)
         IN  posts' = IF got.sent THEN posts \cup {0} ELSE posts
    /\ hpc' = "exited"
    /\ exit_code' = Some(0)
    /\ UNCHANGED <<argv, manifest, disk, results, summary, notHarness>>

\* main(): tests = load_manifest(); nothing to run when it is empty
main_load_manifest ==
    /\ hpc = "mode"
    /\ argv = None
    /\ IF manifest = <<>>
       THEN hpc' = "exited" /\ exit_code' = Some(0)
       ELSE hpc' = "loop" /\ exit_code' = exit_code
    /\ UNCHANGED <<argv, manifest, disk, results, posts, summary, notHarness>>

\* main(): one iteration of `for test_case in tests`; an exception that leaves
\* run_test ends the process with a traceback
main_case ==
    /\ hpc = "loop"
    /\ Len(results) < Len(manifest)
    /\ LET i == Len(results) + 1
           test_case == manifest[i]
       IN  \E o \in PostOutcomes :
             LET ran == run_test(test_case, test_case.file \in disk, o)
             IN  /\ posts' = IF ran.sent THEN posts \cup {i} ELSE posts
                 /\ IF ran.raised
                    THEN /\ hpc' = "aborted"
                         /\ exit_code' = Some(1)
                         /\ results' = results
                    ELSE /\ hpc' = "loop"
                         /\ exit_code' = exit_code
                         /\ results' = Append(results, ran.result)
    /\ UNCHANGED <<argv, manifest, disk, summary, notHarness>>

\* main(): the summary and the exit status
main_summary ==
    /\ hpc = "loop"
    /\ Len(results) = Len(manifest)
    /\ LET passed == CountPassed(results)
           failed == CountFailed(results)
       IN  /\ summary' = Some([passed |-> passed, failed |-> failed,
                               total |-> Len(results)])
           /\ exit_code' = Some(IF failed > 0 THEN 1 ELSE 0)
    /\ hpc' = "exited"
    /\ UNCHANGED <<argv, manifest, disk, results, posts, notHarness>>

HarnessInit ==
    /\ hpc = "start"
    /\ argv \in Args
    /\ manifest \in SeqUpTo(TestCases, MaxCases)
    /\ disk \in SUBSET Fixtures
    /\ results = <<>>
    /\ posts = {}
    /\ summary = None
    /\ exit_code = None

HarnessNext ==
    \/ main_health
    \/ main_single_file
    \/ main_load_manifest
    \/ main_case
    \/ main_summary

-----------------------------------------------------------------------------
(* Evaluations of the two pure functions on bounded inputs *)

\* "a", "A", "1", ".", "_", " ", tab
NormChars == {"a", "A", "1", ".", "_", " ", "\t"}

SimChars == {"a", "b", " ", "."}

\* apply normalize_text to the input, then to its own result
Normalize ==
    /\ Len(nout) < 2
    /\ nout' = Append(nout, normalize_text(IF nout = <<>> THEN nin ELSE nout[Len(nout)]))
    /\ UNCHANGED <<nin, notNorm>>

NormInit ==
    /\ nin \in SeqUpTo(NormChars, MaxTextLen)
    /\ nout = <<>>

\* evaluate calculate_similarity both ways round
Similarity ==
    /\ sout = None
    /\ sout' = Some([ab |-> calculate_similarity(sa, sb),
                     ba |-> calculate_similarity(sb, sa)])
    /\ UNCHANGED <<sa, sb, notSim>>

SimInit ==
    /\ sa \in SeqUpTo(SimChars, MaxSimLen)
    /\ sb \in SeqUpTo(SimChars, MaxSimLen)
    /\ sout = None

-----------------------------------------------------------------------------
(* Specifications *)

SvcIdle == model = "None" /\ fs = {} /\ req = <<>>
HarnessIdle ==
    /\ hpc = "off" /\ argv = None /\ manifest = <<>> /\ disk = {}
    /\ results = <<>> /\ posts = {} /\ summary = None /\ exit_code = None
NormIdle == nin = <<>> /\ nout = <<>>
SimIdle == sa = <<>> /\ sb = <<>> /\ sout = None

\* the service under concurrent requests
Init == SvcInit /\ HarnessIdle /\ NormIdle /\ SimIdle
Next == SvcNext
Spec == Init /\ [][Next]_vars

\* one run of the harness
HInit == HarnessInit /\ SvcIdle /\ NormIdle /\ SimIdle
HNext == HarnessNext
HarnessSpec == HInit /\ [][HNext]_vars

\* normalize_text on every bounded input
NInit == NormInit /\ SvcIdle /\ HarnessIdle /\ SimIdle
NNext == Normalize
NormSpec == NInit /\ [][NNext]_vars

\* calculate_similarity on every bounded pair of inputs
SInit == SimInit /\ SvcIdle /\ HarnessIdle /\ NormIdle
SNext == Similarity
SimSpec == SInit /\ [][SNext]_vars

-----------------------------------------------------------------------------
(* Properties of the service (Spec) *)

OwnsFile(r) == \E f \in fs : f.owner = r

PassedModelCheck(r) == req[r].saw_model = "WhisperModel"

\* C1: once a request that passed the model-loaded check has completed, on
\* whatever exit path, the temporary file created for it does not exist.
C1_TempFileGone ==
    \A r \in Requests :
        (req[r].pc = "done" /\ PassedModelCheck(r)) => ~OwnsFile(r)

\* C2: a request handled while the model is not loaded ends with the 503
\* "Model not loaded" error, has created no temporary file, has read nothing
\* and done no other file I/O, and has left the model as it was.
C2_NotLoaded ==
    \A r \in Requests :
        req[r].saw_model = "None" =>
            /\ req[r].pc = "done"
            /\ req[r].response = Some(HTTPException(503, "Model not loaded"))
            /\ req[r].io = {}
            /\ req[r].calls = 0
            /\ ~OwnsFile(r)

\* C2, the model-loaded state: the step that answers 503 does not change it
C2_ModelUntouched ==
    \A r \in Requests :
        (req[r].pc = "start" /\ req'[r].saw_model = "None") => model' = model

C2_NotLoaded503 == [](C2_NotLoaded) /\ [][C2_ModelUntouched]_vars

C2_Witness ==
    \E r \in Requests :
        /\ req[r].saw_model = "None"
        /\ req[r].pc = "done"
        /\ req[r].response[1].status = 503
        /\ model = "WhisperModel"
        /\ \E q \in Requests : PassedModelCheck(q)

\* C3: when the engine raises, in the call or while its segments are consumed,
\* the request ends with a 500 error whose detail is the engine's message, the
\* exception does not escape, the engine was called once, the file is removed
\* and the model stays loaded.
C3_EngineFailure ==
    \A r \in Requests :
        req[r].engine_error # None =>
            /\ req[r].response = Some(HTTPException(500, req[r].engine_error[1]))
            /\ req[r].calls = 1
            /\ model = "WhisperModel"
            /\ req[r].pc \in {"cleanup", "done"}
            /\ (req[r].pc = "done" => ~OwnsFile(r))

C3_Witness ==
    \E r, q \in Requests :
        /\ req[r].pc = "done"
        /\ req[r].engine_error = Some("decode failed")
        /\ req[q].pc = "done"
        /\ req[q].response[1].status = 200
        /\ req[q].response[1].text = <<"h", "i">>

\* C9: the suffix of the temporary file is the extension of the uploaded
\* filename when it has one, and ".webm" when the filename is missing or empty
\* and when it has no extension.
C9_Suffix ==
    \A r \in Requests :
        req[r].suffix # None =>
            LET name == req[r].filename
                ext == IF name = None \/ name[1] = <<>>
                       THEN <<>>
                       ELSE splitext(name[1])[2]
            IN  req[r].suffix[1] = IF ext # <<>> THEN ext ELSE DefaultSuffix

-----------------------------------------------------------------------------
(* Properties of the harness (HarnessSpec) *)

FullManifestRun == argv = None

\* C4: a full-manifest run never aborts on a case: whatever each case meets,
\* there is one TestResult per case handled, in manifest order, and the
\* summary comes after the last case.
C4_NoAbort ==
    FullManifestRun =>
        /\ hpc # "aborted"
        /\ Len(results) <= Len(manifest)
        /\ \A i \in 1..Len(results) : results[i].file = manifest[i].file
        /\ (summary # None => Len(results) = Len(manifest))

\* C7: a case whose fixture file does not exist gets a TestResult with the
\* file-not-found error, similarity 0.0 and passed false, and no request is
\* sent for it; the run does not stop at such a case.
C7_FixtureMissing ==
    /\ \A i \in 1..Len(results) :
          manifest[i].file \notin disk =>
              /\ results[i].error = Some(<<"File not found: ", manifest[i].file>>)
              /\ results[i].similarity = Zero
              /\ results[i].passed = FALSE
              /\ results[i].actual = <<>>
              /\ i \notin posts
    /\ \A i \in 1..Len(manifest) : manifest[i].file \notin disk => i \notin posts
    /\ hpc = "aborted" => manifest[Len(results) + 1].file \in disk

C7_Witness ==
    \E i \in 1..Len(results) :
        /\ manifest[i].file \notin disk
        /\ results[i].error # None
        /\ posts # {}

\* C8: at the summary, passed + failed = total = the number of manifest cases,
\* passed counts exactly the cases with no error and similarity >= 0.7, and
\* the exit status is non-zero when a case failed.
C8_Summary ==
    summary # None =>
        LET sm == summary[1]
            good == {i \in 1..Len(results) :
                        /\ results[i].error = None
                        /\ Geq(results[i].similarity, Threshold)}
        IN  /\ sm.passed + sm.failed = sm.total
            /\ sm.total = Len(manifest)
            /\ Len(results) = Len(manifest)
            /\ sm.passed = Cardinality(good)
            /\ exit_code # None
            /\ (sm.failed > 0 => exit_code[1] # 0)

C8_Witness ==
    /\ summary # None
    /\ summary[1].passed = 1
    /\ summary[1].failed = 1
    /\ exit_code = Some(1)
    /\ \E i \in 1..Len(results) :
          results[i].error = None /\ ~results[i].passed

-----------------------------------------------------------------------------
(* Properties of normalize_text (NormSpec) and calculate_similarity (SimSpec) *)

\* C5: normalization is idempotent: normalizing a normalized string changes
\* nothing.
C5_Idempotent == Len(nout) = 2 => nout[2] = nout[1]

IsLetterOrDigit(c) == c \in Letters \cup Uppers \cup Digits

\* the four steps as the specification words them
FourSteps(text) ==
    CollapseSpaces(
        SelectSeq(Strip(Lower(text)), LAMBDA c : IsLetterOrDigit(c) \/ IsSpace(c)))

\* C10: normalize_text returns the result of the four steps (lowercase; strip;
\* remove what is not a letter, a digit or whitespace; collapse whitespace
\* runs), so only letters, digits and whitespace are left.
C10_FourSteps ==
    Len(nout) >= 1 =>
        /\ nout[1] = FourSteps(nin)
        /\ \A i \in 1..Len(nout[1]) :
              IsLetterOrDigit(nout[1][i]) \/ IsSpace(nout[1][i])

\* C6: similarity is symmetric, also when either side has no tokens after
\* normalization.
C6_Symmetric == sout # None => sout[1].ab = sout[1].ba

C6_Witness ==
    /\ sout # None
    /\ Words(sa) = {}
    /\ sa # <<>>
    /\ Words(sb) # {}
    /\ sout[1].ab = Zero

=============================================================================
